---- MODULE Spec2Model ----
(***************************************************************************)
(* Two local development servers of showtrackai-local-copy:                *)
(*   serve-web.py          static server for the Flutter web build        *)
(*   start-test-server.py  mock API server for geolocation testing         *)
(* Each behaviour of the model is one run of one of the two programs       *)
(* (prog).  Strings the code inspects (request targets, request bodies,    *)
(* JSON text) are sequences of tokens, so that parsing, formatting and     *)
(* suffix tests are computed and not assumed.                              *)
(***************************************************************************)
EXTENDS Integers, Sequences, FiniteSets, TLC

\* The clock (datetime.now()) runs over 0..MaxClock.
MaxClock == 1
\* Request bodies of the POST specification have at most MaxBodyLen bytes.
MaxBodyLen == 3

VARIABLES
    prog,       \* which program runs: "web" (serve-web.py) or "api" (start-test-server.py)
    env,        \* the filesystem the program finds: [webDir, index, html]
    pc,         \* position of the main function
    listener,   \* "Unbound", "Listening" or "Stopped"
    cwd,        \* the process's working directory
    out,        \* what the main function has printed (a set of message tags)
    exitCode,   \* -1 while running, else the exit status
    now,        \* datetime.now()
    req,        \* the request accepted and not yet handled, or NoReq
    last,       \* the last request handled, with what the handler did
    firstMock   \* history: per mock endpoint, the first response's non-timestamp fields

vars == <<prog, env, pc, listener, cwd, out, exitCode, now, req, last, firstMock>>

(***************************************************************************)
(* Bytes and text                                                          *)
(***************************************************************************)
\* 0xFF, a byte that occurs in no UTF-8 encoding
FF == "\\xff"
\* the bytes request bodies are made of
Alphabet == {"[", "]", ",", "7", " ", FF}

Bodies == UNION {[1..n -> Alphabet] : n \in 0..MaxBodyLen}
ShortBodies == {<<>>} \cup {<<c>> : c \in Alphabet}

\* post_data.decode('utf-8')
decode_utf8(bytes) ==
    IF \E i \in 1..Len(bytes) : bytes[i] = FF
    THEN [ok |-> FALSE, text |-> <<>>]
    ELSE [ok |-> TRUE, text |-> bytes]

DigitChar == <<"0", "1", "2", "3", "4", "5", "6", "7", "8", "9">>

\* str(int): the decimal digits of n >= 0
RECURSIVE Digits(_)
Digits(n) ==
    IF n < 10 THEN <<DigitChar[n + 1]>>
    ELSE Digits(n \div 10) \o <<DigitChar[(n % 10) + 1]>>

(***************************************************************************)
(* Python values and JSON                                                  *)
(***************************************************************************)
Num(n) == [t |-> "num", v |-> n]
Arr(xs) == [t |-> "arr", v |-> xs]
Str(cs) == [t |-> "str", v |-> cs]
Bool(b) == [t |-> "bool", v |-> b]
Float(cs) == [t |-> "float", v |-> cs]

ParseFail == [ok |-> FALSE, val |-> [t |-> "none", v |-> 0], next |-> 0]

IsDigit(c) == \E d \in 1..10 : DigitChar[d] = c
DigitVal(c) == (CHOOSE d \in 1..10 : DigitChar[d] = c) - 1

RECURSIVE SkipWs(_, _)
SkipWs(s, i) == IF i <= Len(s) /\ s[i] = " " THEN SkipWs(s, i + 1) ELSE i

\* the digits of a number after its first one
RECURSIVE ScanDigits(_, _, _)
ScanDigits(s, i, acc) ==
    IF i <= Len(s) /\ IsDigit(s[i])
    THEN ScanDigits(s, i + 1, acc * 10 + DigitVal(s[i]))
    ELSE [ok |-> TRUE, val |-> Num(acc), next |-> i]

\* json.loads's scanner: one value starting at s[i]; arrays and integers
RECURSIVE ParseValue(_, _), ParseElems(_, _, _)
ParseValue(s, i) ==
    IF i > Len(s) THEN ParseFail
    ELSE IF s[i] = "0" THEN [ok |-> TRUE, val |-> Num(0), next |-> i + 1]
    ELSE IF IsDigit(s[i]) THEN ScanDigits(s, i + 1, DigitVal(s[i]))
    ELSE IF s[i] = "["
    THEN LET j == SkipWs(s, i + 1)
         IN  IF j <= Len(s) /\ s[j] = "]"
             THEN [ok |-> TRUE, val |-> Arr(<<>>), next |-> j + 1]
             ELSE ParseElems(s, j, <<>>)
    ELSE ParseFail

ParseElems(s, i, acc) ==
    LET r == ParseValue(s, i)
    IN  IF ~r.ok THEN ParseFail
        ELSE LET j == SkipWs(s, r.next)
             IN  IF j > Len(s) THEN ParseFail
                 ELSE IF s[j] = "]"
                 THEN [ok |-> TRUE, val |-> Arr(Append(acc, r.val)), next |-> j + 1]
                 ELSE IF s[j] = ","
                 THEN ParseElems(s, SkipWs(s, j + 1), Append(acc, r.val))
                 ELSE ParseFail

\* json.loads(text): one value, whitespace around it, nothing after it
json_loads(text) ==
    LET r == ParseValue(text, SkipWs(text, 1))
    IN  IF ~r.ok THEN ParseFail
        ELSE IF SkipWs(text, r.next) = Len(text) + 1 THEN r
        ELSE ParseFail

\* json.dumps of one value; " " stands for the line break and indentation
RECURSIVE dumps_value(_), dumps_items(_)
dumps_value(v) ==
    IF v.t = "num" THEN Digits(v.v)
    ELSE IF v.t = "bool" THEN (IF v.v THEN <<"true">> ELSE <<"false">>)
    ELSE IF v.t = "str" THEN <<"\"">> \o v.v \o <<"\"">>
    ELSE IF v.t = "float" THEN v.v
    ELSE IF v.v = <<>> THEN <<"[", "]">>
    ELSE <<"[", " ">> \o dumps_items(v.v) \o <<" ", "]">>

dumps_items(xs) ==
    IF Len(xs) = 1 THEN dumps_value(xs[1])
    ELSE dumps_value(xs[1]) \o <<",", " ">> \o dumps_items(Tail(xs))

\* json.dumps of a dict: the text of each member, by key
json_dumps(data) == [k \in DOMAIN data |-> dumps_value(data[k])]

(***************************************************************************)
(* Requests, responses and the filesystem                                  *)
(***************************************************************************)
NoBody == [kind |-> "none", obj |-> <<>>]
NoResp == [status |-> 0, headers |-> <<>>, body |-> NoBody, sent |-> FALSE]
NoReq == [method |-> "none", target |-> <<>>, ims |-> FALSE, hasLen |-> FALSE, body |-> <<>>]
NoLast == [req |-> NoReq, now |-> 0, resp |-> NoResp, exc |-> "none", branch |-> "none"]

\* what a handler did: the response it sent (or none), the exception it raised
\* (or none), and the branch of the dispatch that ran
Done(r, b) == [resp |-> r, exc |-> "none", branch |-> b]
Raise(e, b) == [resp |-> NoResp, exc |-> e, branch |-> b]

HeaderSet(r) == {r.headers[i] : i \in 1..Len(r.headers)}
HeaderValues(r, name) == {h[2] : h \in {x \in HeaderSet(r) : x[1] = name}}

\* BaseHTTPRequestHandler.send_response: the status line, Server and Date
send_response(code) ==
    [status |-> code,
     headers |-> << <<"Server", "SimpleHTTP/0.6">>, <<"Date", "<date>">> >>,
     body |-> NoBody, sent |-> FALSE]

send_header(r, name, value) == [r EXCEPT !.headers = Append(@, <<name, value>>)]

\* BaseHTTPRequestHandler.end_headers: the header buffer goes out on the wire
flush_headers(r) == [r EXCEPT !.sent = TRUE]

wfile_write(r, body) == [r EXCEPT !.body = body]

\* urlparse(target).path: the target up to its first "?"
urlparse_path(target) ==
    IF \E i \in 1..Len(target) : target[i] = "?"
    THEN SubSeq(target, 1, (CHOOSE i \in 1..Len(target) :
                                /\ target[i] = "?"
                                /\ \A j \in 1..(i - 1) : target[j] # "?") - 1)
    ELSE target

endswith(path, suffix) == Len(path) > 0 /\ path[Len(path)] = suffix

\* a path without its trailing slash (the root keeps it)
StripSlash(p) == IF Len(p) > 1 /\ endswith(p, "/") THEN SubSeq(p, 1, Len(p) - 1) ELSE p

P_root == <<"/">>
P_test == <<"/", "test">>
P_weather == <<"/", "api", "/", "weather">>
P_location == <<"/", "api", "/", "location">>
P_journal == <<"/", "api", "/", "journal">>
P_create == <<"/", "api", "/", "journal", "/", "create">>
P_notes == <<"/", "notes", ".txt">>
P_lib == <<"/", "lib">>
P_missing == <<"/", "missing">>
P_index == <<"/", "index", ".html">>
P_mainjs == <<"/", "main", ".js">>
P_wasm == <<"/", "app", ".wasm">>
P_json == <<"/", "data", ".json">>
P_css == <<"/", "style", ".css">>
P_missingjs == <<"/", "missing", ".js">>
P_assets == <<"/", "assets">>
P_locked == <<"/", "locked">>
Query == <<"?", "v=1">>

\* what the server's directory holds at a path: "file", "dir", "locked" (a
\* directory that cannot be listed) or "missing"
Kind(h, e, p) ==
    IF h = "web"
    THEN IF p \in {P_mainjs, P_wasm, P_json, P_css} THEN "file"
         ELSE IF p = P_index THEN (IF e.index THEN "file" ELSE "missing")
         ELSE IF p \in {P_root, P_assets} THEN "dir"
         ELSE IF p = P_locked THEN "locked"
         ELSE "missing"
    ELSE IF p = P_notes THEN "file"
         ELSE IF p \in {P_root, P_lib} THEN "dir"
         ELSE IF p = P_locked THEN "locked"
         ELSE "missing"

ApiTargets ==
    LET ps == {P_root, P_test, P_weather, P_location, P_journal, P_create,
               P_notes, P_lib, P_lib \o <<"/">>, P_locked \o <<"/">>, P_missing}
    IN  ps \cup {p \o Query : p \in {P_weather, P_create, P_notes}}

WebTargets ==
    LET ps == {P_root, P_index, P_mainjs, P_wasm, P_json, P_css, P_missingjs,
               P_assets, P_assets \o <<"/">>, P_locked \o <<"/">>}
    IN  ps \cup {p \o Query : p \in {P_mainjs, P_assets \o <<"/">>}}

GetRequests(h) ==
    {[method |-> "GET", target |-> t, ims |-> i, hasLen |-> FALSE, body |-> <<>>] :
        t \in (IF h = "web" THEN WebTargets ELSE ApiTargets), i \in BOOLEAN}

PostTargets == {P_create, P_create \o Query, P_journal}

PostRequests(bodies) ==
    {[method |-> "POST", target |-> t, ims |-> FALSE, hasLen |-> TRUE, body |-> b] :
        t \in PostTargets, b \in bodies}
    \cup {[method |-> "POST", target |-> t, ims |-> FALSE, hasLen |-> FALSE, body |-> <<>>] :
        t \in PostTargets}

Requests(h) == GetRequests(h) \cup PostRequests(ShortBodies)

(***************************************************************************)
(* The handlers                                                            *)
(***************************************************************************)
\* a FlutterWebHandler.end_headers that forgets the Expires header
FlutterWebHandler_end_headers_no_expires(r) ==
    flush_headers(
        send_header(
            send_header(r, "Cache-Control", "no-cache, no-store, must-revalidate"),
            "Pragma", "no-cache"))

\* FlutterWebHandler.end_headers
FlutterWebHandler_end_headers(r) ==
    flush_headers(
        send_header(
            send_header(
                send_header(r, "Cache-Control", "no-cache, no-store, must-revalidate"),
                "Pragma", "no-cache"),
            "Expires", "0"))

\* a GeolocationTestHandler.end_headers that adds no CORS header, leaving
\* them to the JSON helpers
GeolocationTestHandler_end_headers_no_cors(r) == flush_headers(r)

\* GeolocationTestHandler.end_headers
GeolocationTestHandler_end_headers(r) ==
    flush_headers(
        send_header(
            send_header(
                send_header(r, "Access-Control-Allow-Origin", "*"),
                "Access-Control-Allow-Methods", "GET, POST, OPTIONS"),
            "Access-Control-Allow-Headers", "Content-Type"))

\* self.end_headers() of a handler of class h
end_headers(h, r) ==
    IF h = "web" THEN FlutterWebHandler_end_headers(r)
    ELSE GeolocationTestHandler_end_headers(r)

\* BaseHTTPRequestHandler.send_error, as the handlers and the static code call it
send_error(h, code, message) ==
    wfile_write(
        end_headers(h,
            send_header(
                send_header(
                    send_header(send_response(code), "Connection", "close"),
                    "Content-Type", "text/html;charset=utf-8"),
                "Content-Length", "<len>")),
        [kind |-> "error_page", obj |-> message])

\* SimpleHTTPRequestHandler.guess_type: a str, from the extension
super_guess_type(path) ==
    LET ext == path[Len(path)]
        types == [e \in {".js", ".wasm", ".json", ".css", ".html", ".txt"} |->
                    CASE e = ".js" -> "text/javascript"
                      [] e = ".wasm" -> "application/wasm"
                      [] e = ".json" -> "application/json"
                      [] e = ".css" -> "text/css"
                      [] e = ".html" -> "text/html"
                      [] e = ".txt" -> "text/plain"]
    IN  [py |-> "str",
         v |-> IF ext \in DOMAIN types THEN types[ext] ELSE "application/octet-stream"]

\* a, b = x: works for a 2-tuple; a str (no MIME type has two characters)
\* raises ValueError
Unpack2(x) ==
    IF x.py = "tuple" /\ Len(x.v) = 2
    THEN [ok |-> TRUE, first |-> x.v[1]]
    ELSE [ok |-> FALSE, first |-> ""]

\* FlutterWebHandler.guess_type
FlutterWebHandler_guess_type(path) ==
    LET u == Unpack2(super_guess_type(path))
    IN  IF ~u.ok THEN [exc |-> "ValueError", type |-> ""]
        ELSE IF endswith(path, ".js") THEN [exc |-> "none", type |-> "application/javascript"]
        ELSE IF endswith(path, ".wasm") THEN [exc |-> "none", type |-> "application/wasm"]
        ELSE IF endswith(path, ".json") THEN [exc |-> "none", type |-> "application/json"]
        ELSE [exc |-> "none", type |-> u.first]

\* self.guess_type(path) of a handler of class h
guess_type(h, path) ==
    IF h = "web" THEN FlutterWebHandler_guess_type(path)
    ELSE [exc |-> "none", type |-> super_guess_type(path).v]

\* SimpleHTTPRequestHandler.send_head after the directory cases: the file at path
send_file(h, e, path, ims) ==
    LET g == guess_type(h, path)
    IN  IF g.exc # "none" THEN Raise(g.exc, "static")
        ELSE IF endswith(path, "/") THEN Done(send_error(h, 404, "File not found"), "static")
        ELSE IF Kind(h, e, path) # "file"
        THEN Done(send_error(h, 404, "File not found"), "static")
        ELSE IF ims THEN Done(end_headers(h, send_response(304)), "static")
        ELSE Done(wfile_write(
                      end_headers(h,
                          send_header(
                              send_header(
                                  send_header(send_response(200), "Content-type", g.type),
                                  "Content-Length", "<len>"),
                              "Last-Modified", "<mtime>")),
                      [kind |-> "file", obj |-> path]), "static")

\* SimpleHTTPRequestHandler.do_GET: redirect, index file, listing or file
static_do_GET(h, e, r) ==
    LET p == urlparse_path(r.target)
        k == Kind(h, e, StripSlash(p))
    IN  IF k \in {"dir", "locked"}
        THEN IF ~endswith(p, "/")
             THEN Done(end_headers(h,
                           send_header(
                               send_header(send_response(301), "Location", "<target>/"),
                               "Content-Length", "0")), "static")
             ELSE IF Kind(h, e, p \o <<"index", ".html">>) = "file"
             THEN send_file(h, e, p \o <<"index", ".html">>, r.ims)
             ELSE IF k = "locked"
             THEN Done(send_error(h, 404, "No permission to list directory"), "static")
             ELSE Done(wfile_write(
                           end_headers(h,
                               send_header(
                                   send_header(send_response(200), "Content-type",
                                               "text/html; charset=utf-8"),
                                   "Content-Length", "<len>")),
                           [kind |-> "listing", obj |-> p]), "static")
        ELSE send_file(h, e, p, r.ims)

\* datetime.now().isoformat()
isoformat(t) == Str(<<"T">> \o Digits(t))

\* GeolocationTestHandler.send_json_response
send_json_response(data) ==
    wfile_write(
        GeolocationTestHandler_end_headers(
            send_header(
                send_header(
                    send_header(send_response(200), "Content-Type", "application/json"),
                    "Access-Control-Allow-Origin", "*"),
                "Content-Length", "<len>")),
        [kind |-> "json", obj |-> json_dumps(data)])

\* GeolocationTestHandler.send_error_response
send_error_response(message) ==
    wfile_write(
        GeolocationTestHandler_end_headers(
            send_header(
                send_header(send_response(400), "Content-Type", "application/json"),
                "Access-Control-Allow-Origin", "*")),
        [kind |-> "json", obj |-> json_dumps([error |-> Str(<<message>>)])])

\* GeolocationTestHandler.serve_test_interface
serve_test_interface(e) ==
    IF e.html
    THEN Done(wfile_write(
                  GeolocationTestHandler_end_headers(
                      send_header(
                          send_header(send_response(200), "Content-Type", "text/html"),
                          "Content-Length", "<len>")),
                  [kind |-> "html", obj |-> <<"geolocation-test-server.html">>]),
              "test_interface")
    ELSE Done(send_error("api", 404, "Test interface not found"), "test_interface")

\* GeolocationTestHandler.serve_mock_weather
serve_mock_weather(t) ==
    Done(send_json_response(
        [temperature |-> Float(<<"72", ".", "5">>),
         temperatureCelsius |-> Float(<<"22", ".", "5">>),
         condition |-> Str(<<"Clear">>),
         description |-> Str(<<"Clear sky with light breeze">>),
         humidity |-> Num(65),
         windSpeed |-> Float(<<"8", ".", "5">>),
         windDirection |-> Str(<<"NW">>),
         pressure |-> Num(1013),
         visibility |-> Num(10),
         feelsLike |-> Float(<<"70", ".", "2">>),
         uvIndex |-> Num(5),
         sunrise |-> Str(<<"06:45">>),
         sunset |-> Str(<<"19:30">>),
         timestamp |-> isoformat(t)]), "weather")

\* GeolocationTestHandler.serve_mock_location
serve_mock_location(t) ==
    Done(send_json_response(
        [verified |-> Bool(TRUE),
         address |-> Str(<<"1234 Farm Road, Ames, IA 50011">>),
         locationType |-> Str(<<"Agricultural Facility">>),
         nearbyLandmarks |-> Arr(<<Str(<<"Iowa State University Farm">>),
                                   Str(<<"Agricultural Research Station">>),
                                   Str(<<"FFA Training Center">>)>>),
         timestamp |-> isoformat(t)]), "location")

\* a serve_journal_status whose entry count grows with the endpoints served
serve_journal_status_counting(t) ==
    Done(send_json_response(
        [system |-> Str(<<"operational">>),
         database |-> Str(<<"connected">>),
         n8n |-> Str(<<"ready">>),
         supabase |-> Str(<<"connected">>),
         entriesCount |-> Num(42 + Cardinality({k \in DOMAIN firstMock : firstMock[k].seen})),
         lastEntry |-> isoformat(t)]), "journal")

\* GeolocationTestHandler.serve_journal_status
serve_journal_status(t) ==
    Done(send_json_response(
        [system |-> Str(<<"operational">>),
         database |-> Str(<<"connected">>),
         n8n |-> Str(<<"ready">>),
         supabase |-> Str(<<"connected">>),
         entriesCount |-> Num(42),
         lastEntry |-> isoformat(t)]), "journal")

\* a do_GET that matches the raw request target, query string included
do_GET_raw_target(e, r, t) ==
    IF r.target = P_root \/ r.target = P_test THEN serve_test_interface(e)
    ELSE IF r.target = P_weather THEN serve_mock_weather(t)
    ELSE IF r.target = P_location THEN serve_mock_location(t)
    ELSE IF r.target = P_journal THEN serve_journal_status(t)
    ELSE static_do_GET("api", e, r)

\* GeolocationTestHandler.do_GET
do_GET(e, r, t) ==
    LET parsed_path == urlparse_path(r.target)
    IN  IF parsed_path = P_root \/ parsed_path = P_test THEN serve_test_interface(e)
        ELSE IF parsed_path = P_weather THEN serve_mock_weather(t)
        ELSE IF parsed_path = P_location THEN serve_mock_location(t)
        ELSE IF parsed_path = P_journal THEN serve_journal_status(t)
        ELSE static_do_GET("api", e, r)

\* a do_POST that echoes the decoded body text instead of the parsed value
do_POST_raw_echo(r, t) ==
    IF r.target = P_create
    THEN IF ~r.hasLen THEN Raise("TypeError", "create")
         ELSE LET d == decode_utf8(r.body)
              IN  IF ~d.ok THEN Raise("UnicodeDecodeError", "create")
                  ELSE LET journal_data == json_loads(d.text)
                       IN  IF journal_data.ok
                           THEN Done(send_json_response(
                                    [success |-> Bool(TRUE),
                                     id |-> Str(<<"journal_">> \o Digits(t)),
                                     message |-> Str(<<"Journal entry created successfully">>),
                                     data |-> Str(d.text)]), "create")
                           ELSE Done(send_error_response("Invalid JSON data"), "create")
    ELSE Done(NoResp, "none")

\* GeolocationTestHandler.do_POST
do_POST(r, t) ==
    IF r.target = P_create
    THEN IF ~r.hasLen THEN Raise("TypeError", "create")
         ELSE LET d == decode_utf8(r.body)
              IN  IF ~d.ok THEN Raise("UnicodeDecodeError", "create")
                  ELSE LET journal_data == json_loads(d.text)
                       IN  IF journal_data.ok
                           THEN Done(send_json_response(
                                    [success |-> Bool(TRUE),
                                     id |-> Str(<<"journal_">> \o Digits(t)),
                                     message |-> Str(<<"Journal entry created successfully">>),
                                     data |-> journal_data.val]), "create")
                           ELSE Done(send_error_response("Invalid JSON data"), "create")
    ELSE Done(NoResp, "none")

\* BaseHTTPRequestHandler.handle_one_request: the method's do_ handler, or 501
handle_one_request(h, e, r, t) ==
    IF h = "api"
    THEN IF r.method = "GET" THEN do_GET(e, r, t) ELSE do_POST(r, t)
    ELSE IF r.method = "GET" THEN static_do_GET("web", e, r)
         ELSE Done(send_error("web", 501, "Unsupported method"), "unsupported")

(***************************************************************************)
(* The two programs                                                        *)
(***************************************************************************)
MockNames == {"weather", "location", "journal"}

\* the mock endpoint a GET request addresses, or "none"
MockKey(r) ==
    IF r.method # "GET" THEN "none"
    ELSE IF urlparse_path(r.target) = P_weather THEN "weather"
    ELSE IF urlparse_path(r.target) = P_location THEN "location"
    ELSE IF urlparse_path(r.target) = P_journal THEN "journal"
    ELSE "none"

\* a JSON object without its timestamp members
StripTimestamps(obj) == [k \in (DOMAIN obj) \ {"timestamp", "lastEntry"} |-> obj[k]]

Envs(h) ==
    IF h = "web"
    THEN {[webDir |-> TRUE, index |-> i, html |-> FALSE] : i \in BOOLEAN}
         \cup {[webDir |-> FALSE, index |-> FALSE, html |-> FALSE]}
    ELSE {[webDir |-> FALSE, index |-> FALSE, html |-> x] : x \in BOOLEAN}

WebDiagnostic == {"ERROR: Web build directory not found", "Please run 'flutter build web' first"}
WebShutdown == "Server stopped"
ApiShutdown == "Server stopped by user"

Init ==
    /\ prog \in {"web", "api"}
    /\ env \in Envs(prog)
    /\ pc = "start"
    /\ listener = "Unbound"
    /\ cwd = "launch"
    /\ out = {}
    /\ exitCode = -1
    /\ now = 0
    /\ req = NoReq
    /\ last = NoLast
    /\ firstMock = [k \in MockNames |-> [seen |-> FALSE, obj |-> <<>>]]

\* a missing-directory branch that exits with status 0
serve_flutter_web_missing_exit0 ==
    /\ prog = "web" /\ pc = "start"
    /\ ~env.webDir
    /\ out' = out \cup WebDiagnostic
    /\ exitCode' = 0
    /\ pc' = "exited"
    /\ UNCHANGED <<prog, env, listener, cwd, now, req, last, firstMock>>

\* serve_flutter_web: the build directory is missing
serve_flutter_web_missing ==
    /\ prog = "web" /\ pc = "start"
    /\ ~env.webDir
    /\ out' = out \cup WebDiagnostic
    /\ exitCode' = 1
    /\ pc' = "exited"
    /\ UNCHANGED <<prog, env, listener, cwd, now, req, last, firstMock>>

\* serve_flutter_web: the build directory exists; os.chdir(web_dir)
serve_flutter_web_chdir ==
    /\ prog = "web" /\ pc = "start"
    /\ env.webDir
    /\ cwd' = "build/web"
    /\ out' = out \cup {"Serving from"}
    /\ pc' = "chdir"
    /\ UNCHANGED <<prog, env, listener, exitCode, now, req, last, firstMock>>

\* serve_flutter_web: socketserver.TCPServer(("", PORT), FlutterWebHandler) binds and listens
serve_flutter_web_bind ==
    /\ prog = "web" /\ pc = "chdir"
    /\ listener' = "Listening"
    /\ pc' = "bound"
    /\ UNCHANGED <<prog, env, cwd, out, exitCode, now, req, last, firstMock>>

\* serve_flutter_web: the two prints of the with block, then try: serve_forever()
serve_flutter_web_announce ==
    /\ prog = "web" /\ pc = "bound"
    /\ out' = out \cup {"Flutter web app serving", "Press Ctrl+C to stop the server"}
    /\ pc' = "serving"
    /\ UNCHANGED <<prog, env, listener, cwd, exitCode, now, req, last, firstMock>>

\* start_server: the banner, then os.chdir to the script's directory
start_server_banner ==
    /\ prog = "api" /\ pc = "start"
    /\ out' = out \cup {"ShowTrackAI Geolocation Test Server"}
    /\ cwd' = "script_dir"
    /\ pc' = "chdir"
    /\ UNCHANGED <<prog, env, listener, exitCode, now, req, last, firstMock>>

\* start_server: socketserver.TCPServer((HOST, PORT), GeolocationTestHandler) binds and listens
start_server_bind ==
    /\ prog = "api" /\ pc = "chdir"
    /\ listener' = "Listening"
    /\ pc' = "bound"
    /\ UNCHANGED <<prog, env, cwd, out, exitCode, now, req, last, firstMock>>

\* start_server: webbrowser.open(...), its result dropped, then try: serve_forever()
start_server_browser ==
    /\ prog = "api" /\ pc = "bound"
    /\ pc' = "serving"
    /\ UNCHANGED <<prog, env, listener, cwd, out, exitCode, now, req, last, firstMock>>

\* serve_forever: a connection is accepted and its request read
get_request ==
    /\ pc = "serving" /\ req = NoReq
    /\ \E r \in Requests(prog) : req' = r
    /\ last' = NoLast
    /\ UNCHANGED <<prog, env, pc, listener, cwd, out, exitCode, now, firstMock>>

\* serve_forever: the handler runs to its end; an exception it raises is
\* reported by handle_error and the loop goes on
process_request ==
    /\ pc = "serving" /\ req # NoReq
    /\ LET res == handle_one_request(prog, env, req, now)
           key == IF prog = "api" THEN MockKey(req) ELSE "none"
       IN  /\ last' = [req |-> req, now |-> now, resp |-> res.resp,
                       exc |-> res.exc, branch |-> res.branch]
           /\ out' = IF res.exc = "none" THEN out
                     ELSE out \cup {"Exception occurred during processing of request"}
           /\ firstMock' =
                IF key # "none" /\ ~firstMock[key].seen /\ res.resp.body.kind = "json"
                THEN [firstMock EXCEPT ![key] =
                        [seen |-> TRUE, obj |-> StripTimestamps(res.resp.body.obj)]]
                ELSE firstMock
    /\ req' = NoReq
    /\ UNCHANGED <<prog, env, pc, listener, cwd, exitCode, now>>

\* time passes
Tick ==
    /\ pc = "serving" /\ now < MaxClock
    /\ now' = now + 1
    /\ UNCHANGED <<prog, env, pc, listener, cwd, out, exitCode, req, last, firstMock>>

\* serve_flutter_web: Ctrl+C inside try: the except clause prints and the with
\* block closes the socket
serve_flutter_web_interrupt ==
    /\ prog = "web" /\ pc = "serving"
    /\ out' = out \cup {WebShutdown}
    /\ listener' = "Stopped"
    /\ pc' = "stopped"
    /\ exitCode' = 0
    /\ req' = NoReq
    /\ UNCHANGED <<prog, env, cwd, now, last, firstMock>>

\* serve_flutter_web: Ctrl+C in the with block before try: the with block
\* closes the socket and KeyboardInterrupt leaves the function
serve_flutter_web_interrupt_early ==
    /\ prog = "web" /\ pc = "bound"
    /\ out' = out \cup {"Traceback: KeyboardInterrupt"}
    /\ listener' = "Stopped"
    /\ pc' = "killed"
    /\ exitCode' = 130
    /\ UNCHANGED <<prog, env, cwd, now, req, last, firstMock>>

\* start_server: Ctrl+C inside try
start_server_interrupt ==
    /\ prog = "api" /\ pc = "serving"
    /\ out' = out \cup {ApiShutdown}
    /\ listener' = "Stopped"
    /\ pc' = "stopped"
    /\ exitCode' = 0
    /\ req' = NoReq
    /\ UNCHANGED <<prog, env, cwd, now, last, firstMock>>

\* start_server: Ctrl+C during webbrowser.open, before try
start_server_interrupt_early ==
    /\ prog = "api" /\ pc = "bound"
    /\ out' = out \cup {"Traceback: KeyboardInterrupt"}
    /\ listener' = "Stopped"
    /\ pc' = "killed"
    /\ exitCode' = 130
    /\ UNCHANGED <<prog, env, cwd, now, req, last, firstMock>>

Next ==
    \/ serve_flutter_web_missing
    \/ serve_flutter_web_chdir
    \/ serve_flutter_web_bind
    \/ serve_flutter_web_announce
    \/ start_server_banner
    \/ start_server_bind
    \/ start_server_browser
    \/ get_request
    \/ process_request
    \/ Tick
    \/ serve_flutter_web_interrupt
    \/ serve_flutter_web_interrupt_early
    \/ start_server_interrupt
    \/ start_server_interrupt_early

Spec == Init /\ [][Next]_vars

\* The mock API server with one POST request accepted, its body any byte
\* string of at most MaxBodyLen bytes.
PostInit ==
    /\ prog = "api"
    /\ env \in Envs("api")
    /\ pc = "serving"
    /\ listener = "Listening"
    /\ cwd = "script_dir"
    /\ out = {"ShowTrackAI Geolocation Test Server"}
    /\ exitCode = -1
    /\ now \in 0..MaxClock
    /\ req \in PostRequests(Bodies)
    /\ last = NoLast
    /\ firstMock = [k \in MockNames |-> [seen |-> FALSE, obj |-> <<>>]]

PostNext == process_request

PostSpec == PostInit /\ [][PostNext]_vars

(***************************************************************************)
(* Properties                                                              *)
(***************************************************************************)
ApiHandled == prog = "api" /\ last.req # NoReq
WebHandled == prog = "web" /\ last.req # NoReq
LastPath == urlparse_path(last.req.target)

CorsHeaders ==
    { <<"Access-Control-Allow-Origin", "*">>,
      <<"Access-Control-Allow-Methods", "GET, POST, OPTIONS">>,
      <<"Access-Control-Allow-Headers", "Content-Type">> }

\* C1: every response the mock API server sends, whichever branch produced
\* it, carries the three CORS headers with their fixed values.
C1_CorsOnEveryResponse ==
    (ApiHandled /\ last.resp.sent) => CorsHeaders \subseteq HeaderSet(last.resp)

\* C1 witness: a 404 of the static fallthrough went out through send_error.
C1_Witness ==
    /\ ApiHandled /\ last.resp.sent
    /\ last.branch = "static" /\ last.resp.status = 404
    /\ CorsHeaders \subseteq HeaderSet(last.resp)

\* the request body decodes and parses as JSON
BodyParses(b) == decode_utf8(b).ok /\ json_loads(decode_utf8(b).text).ok

CreatePost ==
    /\ ApiHandled
    /\ last.req.method = "POST" /\ last.req.target = P_create /\ last.req.hasLen

\* C2: a POST to /api/journal/create whose body cannot be parsed as JSON is
\* answered with status 400 and a JSON object that has an error key.
C2_InvalidBodyGets400 ==
    (CreatePost /\ ~BodyParses(last.req.body)) =>
        /\ last.resp.sent
        /\ last.resp.status = 400
        /\ last.resp.body.kind = "json"
        /\ "error" \in DOMAIN last.resp.body.obj

\* C3: a POST to /api/journal/create whose body parses as JSON is answered
\* 200 with success true, id "journal_" followed by the Unix time, the fixed
\* message, and under data JSON text that reads back as the parsed body.
C3_CreateEchoesBody ==
    (CreatePost /\ BodyParses(last.req.body)) =>
        /\ last.resp.sent
        /\ last.resp.status = 200
        /\ last.resp.body.kind = "json"
        /\ DOMAIN last.resp.body.obj = {"success", "id", "message", "data"}
        /\ last.resp.body.obj.success = <<"true">>
        /\ last.resp.body.obj.id = <<"\"", "journal_">> \o Digits(last.now) \o <<"\"">>
        /\ last.resp.body.obj.message = <<"\"", "Journal entry created successfully", "\"">>
        /\ json_loads(last.resp.body.obj.data).ok
        /\ json_loads(last.resp.body.obj.data).val
              = json_loads(decode_utf8(last.req.body).text).val

\* C3 witness: the body [7] was echoed at a clock other than 0.
C3_Witness ==
    /\ CreatePost
    /\ last.req.body = <<"[", "7", "]">>
    /\ last.now > 0
    /\ last.resp.status = 200
    /\ json_loads(last.resp.body.obj.data).val = Arr(<<Num(7)>>)

C4_RouteOf(p) ==
    IF p \in {P_root, P_test} THEN "test_interface"
    ELSE IF p = P_weather THEN "weather"
    ELSE IF p = P_location THEN "location"
    ELSE IF p = P_journal THEN "journal"
    ELSE "static"

\* the routes of a GET that the handler answers itself
C4_FixedRoutes ==
    (ApiHandled /\ last.req.method = "GET") =>
        /\ last.branch = C4_RouteOf(LastPath)
        /\ last.branch = "test_interface" =>
              /\ last.resp.sent
              /\ IF env.html
                 THEN /\ last.resp.status = 200
                      /\ HeaderValues(last.resp, "Content-Type") = {"text/html"}
                      /\ last.resp.body.kind = "html"
                 ELSE last.resp.status = 404
        /\ last.branch \in MockNames =>
              /\ last.resp.sent
              /\ last.resp.status = 200
              /\ HeaderValues(last.resp, "Content-Type") = {"application/json"}
              /\ last.resp.body.kind = "json"

\* C4 as stated: a GET is dispatched on its path in the priority order, and
\* any other path falls through to static serving, which yields a file or 404.
C4_StaticIsFileOr404 ==
    /\ C4_FixedRoutes
    /\ (ApiHandled /\ last.req.method = "GET" /\ last.branch = "static") =>
          /\ last.resp.sent
          /\ \/ last.resp.status = 200 /\ last.resp.body.kind = "file"
             \/ last.resp.status = 404

\* C4 amended: a GET is dispatched on its path in the priority order, and any
\* other path falls through to static serving, which yields a file (200, or
\* 304 when not modified), a directory redirect (301) or listing (200), or 404.
C4_DispatchByPath ==
    /\ C4_FixedRoutes
    /\ (ApiHandled /\ last.req.method = "GET" /\ last.branch = "static") =>
          /\ last.resp.sent
          /\ \/ last.resp.status = 200 /\ last.resp.body.kind \in {"file", "listing"}
             \/ last.resp.status \in {301, 304, 404}

\* C4 witness: a mock endpoint asked with a query string, answered by its route.
C4_Witness ==
    /\ ApiHandled /\ last.req.method = "GET"
    /\ last.req.target = P_weather \o Query
    /\ last.branch = "weather" /\ last.resp.status = 200

C5_ExpectedType(p) ==
    IF endswith(p, ".js") THEN "application/javascript"
    ELSE IF endswith(p, ".wasm") THEN "application/wasm"
    ELSE IF endswith(p, ".json") THEN "application/json"
    ELSE super_guess_type(p).v

\* C5: the static server answers a request for a file of the asset root with
\* Content-Type application/javascript, application/wasm or application/json
\* when the path ends in .js, .wasm or .json, and the default type otherwise.
C5_MimeOverride ==
    (/\ WebHandled /\ last.req.method = "GET" /\ ~last.req.ims
     /\ Kind("web", env, LastPath) = "file") =>
        /\ last.resp.sent
        /\ last.resp.status = 200
        /\ HeaderValues(last.resp, "Content-type") = {C5_ExpectedType(LastPath)}

CacheHeaders ==
    << <<"Cache-Control", "no-cache, no-store, must-revalidate">>,
       <<"Pragma", "no-cache">>,
       <<"Expires", "0">> >>

\* C6: every response of the static server ends its headers with
\* Cache-Control, Pragma and Expires, in this order and with these values,
\* and carries each of them once.
C6_NoCacheHeadersLast ==
    (WebHandled /\ last.resp.sent) =>
        LET hs == last.resp.headers
            n == Len(hs)
        IN  /\ n >= 3
            /\ SubSeq(hs, n - 2, n) = CacheHeaders
            /\ \A i \in 1..(n - 3) : hs[i][1] \notin {"Cache-Control", "Pragma", "Expires"}

\* C6 witness: a 404 of the static server went out.
C6_Witness ==
    /\ WebHandled /\ last.resp.sent
    /\ last.resp.status = 404
    /\ SubSeq(last.resp.headers, Len(last.resp.headers) - 2, Len(last.resp.headers)) = CacheHeaders

\* C7: without the asset directory the static server prints the diagnostic
\* and exits with status 1; it never changes directory and never binds.
C7_MissingDirExits ==
    (prog = "web" /\ ~env.webDir) =>
        /\ listener = "Unbound"
        /\ cwd = "launch"
        /\ pc \in {"start", "exited"}
        /\ pc = "exited" => (exitCode = 1 /\ WebDiagnostic \subseteq out)

\* C7 witness: the static server has exited on a missing directory.
C7_Witness ==
    /\ prog = "web" /\ ~env.webDir
    /\ pc = "exited" /\ exitCode = 1
    /\ listener = "Unbound"

ShutdownMessage == IF prog = "web" THEN WebShutdown ELSE ApiShutdown

\* C8: the listener moves only Unbound -> Listening -> Stopped; handling a
\* request leaves it Listening; it leaves Listening only for Stopped, with the
\* shutdown message printed.
C8_ListenerLifecycle ==
    [][/\ listener = "Unbound" => listener' \in {"Unbound", "Listening"}
       /\ listener = "Stopped" => listener' = "Stopped"
       /\ (listener = "Listening" /\ req # NoReq /\ req' = NoReq /\ pc' = "serving")
             => listener' = "Listening"
       /\ (listener = "Listening" /\ listener' # "Listening")
             => (listener' = "Stopped" /\ ShutdownMessage \in out')]_vars

\* C9: a GET on a mock endpoint is answered 200 with the same non-timestamp
\* members as the first GET on that endpoint, whatever was served in between,
\* and its timestamp member is the clock's value.
C9_MockGetIdempotent ==
    (ApiHandled /\ MockKey(last.req) # "none") =>
        LET k == MockKey(last.req)
            obj == last.resp.body.obj
            ts == IF k = "journal" THEN "lastEntry" ELSE "timestamp"
        IN  /\ last.resp.sent
            /\ last.resp.status = 200
            /\ last.resp.body.kind = "json"
            /\ firstMock[k].seen
            /\ StripTimestamps(obj) = firstMock[k].obj
            /\ ts \in DOMAIN obj
            /\ obj[ts] = <<"\"", "T">> \o Digits(last.now) \o <<"\"">>
            /\ pc = "serving" => (listener = "Listening" /\ cwd = "script_dir")

\* C9 witness: the journal status was served once every endpoint had been
\* served, with the clock advanced.
C9_Witness ==
    /\ ApiHandled /\ MockKey(last.req) = "journal"
    /\ \A k \in MockNames : firstMock[k].seen
    /\ last.now > 0
    /\ last.resp.status = 200

\* C10: every POST the mock API server handles, whatever its path, produces
\* an HTTP response before the handler returns.
C10_PostAlwaysAnswered ==
    (ApiHandled /\ last.req.method = "POST" /\ last.exc = "none") => last.resp.sent

====
